---------------------------- MODULE Spec2Model ----------------------------
(***************************************************************************)
(* A model of the PSRC household-travel-survey notebook                    *)
(* (src/psrc_hts_tutorial.ipynb): the Cleaner cells (dropna, the           *)
(* travel_time_manual apply, the plausibility filter), the per-person-day  *)
(* mobility_metrics apply with its trip-chain walk, the adult filter of    *)
(* Step 3, and the radius-of-gyration cells (the O/D cleaning, the O/D     *)
(* merge, rog, rog_centroid_df).                                           *)
(*                                                                         *)
(* Tables are sequences of records, one record per row, in table order.    *)
(* A notebook cell is one action; a per-row apply whose rows the claims    *)
(* look into is one action per row.  pc names the cell the kernel is about *)
(* to run.                                                                 *)
(***************************************************************************)
EXTENDS Integers, Sequences, FiniteSets, TLC

VARIABLES
    pc,             \* the next cell to run, "error" after an uncaught exception
    error,          \* the uncaught exception, "none" while there is none
    trips,          \* the raw trip table, as loaded
    input,          \* the table the Cleaner cells read as `trips`
    pass,           \* 1: cleaning the raw table, 2: cleaning the Cleaner's own output
    first_out,      \* the cleaned table of pass 1, kept to compare pass 2 with
    trips_clean,    \* the notebook's trips_clean
    trips_clean_adults, \* the notebook's trips_clean_adults
    person_day_df,  \* the notebook's person_day_df
    cur,            \* index of the person_day_df row mobility_metrics is applied to
    trips_day_person, \* mobility_metrics' local table
    idx,            \* position of the trip-chain walk in trips_day_person
    num_trips, pmt, vmt, trip_chains, start_home,   \* mobility_metrics' locals
    applied,        \* the Series person_day_df.apply has collected so far
    rogs,           \* the values persons.apply(rog_centroid_df) has collected so far
    last_centroid,  \* rog_centroid_df's centroid, of its latest call; <<>> before any
    od,             \* the O/D location table, as loaded
    gdf_od,         \* the cleaned O/D table
    trips_od,       \* the merge of trips_clean and od
    persons         \* the person table; the rog cell adds its rog column

vars == <<pc, error, trips, input, pass, first_out, trips_clean,
          trips_clean_adults, person_day_df,
          cur, trips_day_person, idx, num_trips, pmt, vmt, trip_chains,
          start_home, applied, rogs, last_centroid, od, gdf_od, trips_od, persons>>

cleanerVars == <<trips, input, pass, first_out, trips_clean, trips_clean_adults>>
metricVars == <<person_day_df, cur, trips_day_person, idx, num_trips, pmt, vmt,
                trip_chains, start_home, applied>>
rogVars == <<rogs, last_centroid, od, gdf_od, trips_od, persons>>

----------------------------------------------------------------------------
(* Bounds of the model. *)

\* rows of a raw trip table given to the Cleaner
MaxRawTrips == 2
\* trips of the single person-day of a trip-chain table
MaxChainTrips == 4
\* rows of a cleaned table spread over several person-days
MaxGroupTrips == 3
\* trips of a table whose trips have O/D locations
MaxOdTrips == 2
\* a mean of coordinates is kept in 1/Resolution of a thousandth of a degree
Resolution == 6

----------------------------------------------------------------------------
(* Values. *)

\* a missing timestamp string (pandas NaN in a column of strings)
NaN == <<"nan">>

\* the purpose string the trip-chain walk compares with
WentHome == "Went home"
Purposes == {WentHome, "Went to work", "Shopping"}

Drive == "Drive"
Modes == {Drive, "Walk"}

\* the travel-time ceiling of the plausibility filter, in minutes
TravelTimeCeiling == 120
\* the day-type set of the plausibility filter
Weekdays == {1, 2, 3, 4, 5}

SecondsPerMinute == 60

(* A timestamp cell is NaN, or <<"fmt", t>>: the text                     *)
(* "Date: %Y-%m-%d %H:%M:%S.%f" of the instant t (seconds) followed by one  *)
(* more character, or <<"other", t>>: any text that, its last character     *)
(* removed, does not match that format.  Instants are whole minutes, so     *)
(* that total_seconds()/60 is an integer.                                   *)
Instants == {0, 119 * SecondsPerMinute, 120 * SecondsPerMinute}
TimeStrings == {NaN, <<"other", 0>>} \cup {<<"fmt", t>> : t \in Instants}

Abs(x) == IF x < 0 THEN -x ELSE x

RECURSIVE SumSeq(_)
SumSeq(s) == IF s = <<>> THEN 0 ELSE Head(s) + SumSeq(Tail(s))

RECURSIVE SelectRows(_, _)
\* boolean-mask indexing df[mask]: the rows whose position is in keep, in table order
SelectRows(t, keep) ==
    IF t = <<>> THEN <<>>
    ELSE LET n == Len(t)
             rest == SelectRows(SubSeq(t, 1, n - 1), keep)
         IN  IF n \in keep THEN Append(rest, t[n]) ELSE rest

Positions(t) == 1 .. Len(t)

----------------------------------------------------------------------------
(* The Cleaner. *)

\* trips.dropna(subset=['depart_time_string', 'arrival_time_string'])
DropNa(t) ==
    SelectRows(t, {i \in Positions(t) :
                     /\ t[i].depart_time_string # NaN
                     /\ t[i].arrival_time_string # NaN})

ParsesAnything(s) == s # NaN

\* datetime.strptime(s[:-1], date_format) succeeds
Parses(s) == s # NaN /\ s[1] = "fmt"

\* datetime.strptime(s[:-1], date_format): the instant, in seconds
Strptime(s) == s[2]

\* travel_time_manual raises (strptime's ValueError) on this row
Raises(row) == ~Parses(row.arrival_time_string) \/ ~Parses(row.depart_time_string)

TravelTimeNoAbs(row) ==
    (Strptime(row.arrival_time_string) - Strptime(row.depart_time_string))
        \div SecondsPerMinute

\* travel_time_manual(row), for a row it does not raise on
travel_time_manual(row) ==
    LET delta_time == Abs(Strptime(row.arrival_time_string)
                          - Strptime(row.depart_time_string))
    IN  delta_time \div SecondsPerMinute

HasTravelTime(row) == "travel_time_calc" \in DOMAIN row

WithTravelTimeAdded(t) ==
    [i \in Positions(t) |->
        [f \in DOMAIN t[i] \cup {"travel_time_calc"} |->
            IF f = "travel_time_calc"
            THEN (IF HasTravelTime(t[i]) THEN t[i].travel_time_calc ELSE 0)
                 + travel_time_manual(t[i])
            ELSE t[i][f]]]

\* trips_clean.loc[:, "travel_time_calc"] = trips_clean.apply(travel_time_manual, axis=1)
\* (the column is added, or overwritten when the table already has it)
WithTravelTime(t) ==
    [i \in Positions(t) |->
        [f \in DOMAIN t[i] \cup {"travel_time_calc"} |->
            IF f = "travel_time_calc" THEN travel_time_manual(t[i]) ELSE t[i][f]]]

KeepAtCeiling(row) ==
    /\ row.travel_time_calc <= TravelTimeCeiling
    /\ row.daynum \in Weekdays

\* the mask of the plausibility filter
Plausible(row) ==
    /\ row.travel_time_calc < TravelTimeCeiling
    /\ row.daynum \in Weekdays

\* trips_clean[(trips_clean.travel_time_calc < 120) & (trips_clean.daynum.isin([1,2,3,4,5]))]
FilterPlausible(t) == SelectRows(t, {i \in Positions(t) : Plausible(t[i])})

\* cell: trips_clean = trips.dropna(...)
DropMissing ==
    /\ pc = "dropna"
    /\ trips_clean' = DropNa(input)
    /\ pc' = "apply"
    /\ UNCHANGED <<error, trips, input, pass, first_out, trips_clean_adults,
                   metricVars, rogVars>>

\* the apply writing its column through trips_clean into the rows of trips
ApplyTravelTimeThroughView ==
    /\ pc = "apply"
    /\ \A i \in Positions(trips_clean) : ~Raises(trips_clean[i])
    /\ trips_clean' = WithTravelTime(trips_clean)
    /\ trips' = [i \in Positions(trips) |->
                    IF \E j \in Positions(trips_clean) : trips_clean[j] = trips[i]
                    THEN WithTravelTime(<<trips[i]>>)[1] ELSE trips[i]]
    /\ pc' = "filter"
    /\ UNCHANGED <<error, input, pass, first_out, trips_clean_adults, metricVars,
                   rogVars>>

\* cell: the travel_time_manual apply, every row parsing
ApplyTravelTime ==
    /\ pc = "apply"
    /\ \A i \in Positions(trips_clean) : ~Raises(trips_clean[i])
    /\ trips_clean' = WithTravelTime(trips_clean)
    /\ pc' = "filter"
    /\ UNCHANGED <<error, trips, input, pass, first_out, trips_clean_adults,
                   metricVars, rogVars>>

\* cell: the travel_time_manual apply, strptime raising on some row: the
\* exception leaves apply and the cell, the assignment never happens
ApplyRaises ==
    /\ pc = "apply"
    /\ \E i \in Positions(trips_clean) : Raises(trips_clean[i])
    /\ error' = "ValueError"
    /\ pc' = "error"
    /\ UNCHANGED <<cleanerVars, metricVars, rogVars>>

\* cell: the plausibility filter
Filter ==
    /\ pc = "filter"
    /\ trips_clean' = FilterPlausible(trips_clean)
    /\ pc' = "cleaned"
    /\ UNCHANGED <<error, trips, input, pass, first_out, trips_clean_adults,
                   metricVars, rogVars>>

\* the Cleaner cells run again, on the table they produced
CleanAgain ==
    /\ pc = "cleaned"
    /\ pass = 1
    /\ first_out' = trips_clean
    /\ input' = trips_clean
    /\ pass' = 2
    /\ pc' = "dropna"
    /\ UNCHANGED <<error, trips, trips_clean, trips_clean_adults, metricVars, rogVars>>

----------------------------------------------------------------------------
(* Raw trip tables for the Cleaner: row i is trip i of person 1. *)

RawRow(i, day, dep, arr) ==
    [trip_id |-> i, household_id |-> 1, person_dim_id |-> 1, daynum |-> day,
     origin_purpose |-> WentHome, dest_purpose |-> "Went to work",
     depart_time_string |-> dep, arrival_time_string |-> arr,
     trip_path_distance |-> 1, mode_simple |-> Drive]

\* a Friday and a Saturday
RawDays == {5, 6}

\* pd.read_csv("data/Household_Travel_Survey_Trips.csv"), one more row of the file
ReadTrip ==
    /\ pc = "read_csv"
    /\ Len(trips) < MaxRawTrips
    /\ \E day \in RawDays, dep \in TimeStrings, arr \in TimeStrings :
          trips' = Append(trips, RawRow(Len(trips) + 1, day, dep, arr))
    /\ UNCHANGED <<pc, error, input, pass, first_out, trips_clean,
                   trips_clean_adults, metricVars, rogVars>>

\* the file is read: trips is the raw table
ReadDone ==
    /\ pc = "read_csv"
    /\ input' = trips
    /\ pc' = "dropna"
    /\ UNCHANGED <<error, trips, pass, first_out, trips_clean, trips_clean_adults,
                   metricVars, rogVars>>

InitIdle ==
    /\ error = "none"
    /\ person_day_df = <<>>
    /\ cur = 0
    /\ trips_day_person = <<>>
    /\ idx = 0
    /\ num_trips = 0
    /\ pmt = 0
    /\ vmt = 0
    /\ trip_chains = 0
    /\ start_home = FALSE
    /\ applied = <<>>
    /\ rogs = <<>>
    /\ last_centroid = <<>>
    /\ od = <<>>
    /\ gdf_od = <<>>
    /\ trips_od = <<>>
    /\ persons = <<[person_id |-> 1], [person_id |-> 2]>>

\* the kernel has started; no file is read yet, but for the two persons of
\* the person table
Init ==
    /\ pc = "read_csv"
    /\ trips = <<>>
    /\ input = <<>>
    /\ pass = 1
    /\ first_out = <<>>
    /\ trips_clean = <<>>
    /\ trips_clean_adults = <<>>
    /\ InitIdle

NextClean ==
    \/ ReadTrip
    \/ ReadDone
    \/ DropMissing
    \/ ApplyTravelTime
    \/ ApplyRaises
    \/ Filter
    \/ CleanAgain

SpecClean == Init /\ [][NextClean]_vars

----------------------------------------------------------------------------
(* Step 3: the adult filter on the cleaned table.  Every row of the trip   *)
(* table carries the age group of its person.                              *)

\* the values of the age column: the four groups under 18 and two of the
\* groups of adults
Ages ==
    {"Under 5 years old", "5-11 years", "12-15 years", "16-17 years",
     "18-24 years", "35-44 years"}

\* the mask of the adult filter: the four comparisons joined by |
AdultMask(row) ==
    \/ row.age # "Under 5 years old"
    \/ row.age # "5-11 years"
    \/ row.age # "12-15 years"
    \/ row.age # "16-17 years"

\* trips_clean[(trips_clean.age != ...) | ... | (trips_clean.age != ...)]
FilterAdults(t) == SelectRows(t, {i \in Positions(t) : AdultMask(t[i])})

\* cell: trips_clean_adults
FilterToAdults ==
    /\ pc = "cleaned"
    /\ trips_clean_adults' = FilterAdults(trips_clean)
    /\ pc' = "adults_done"
    /\ UNCHANGED <<error, trips, input, pass, first_out, trips_clean, metricVars,
                   rogVars>>

\* a row of the trip table with its age column, its timestamps well formed
\* and one minute apart
AgedRow(i, day, age) ==
    LET row == RawRow(i, day, <<"fmt", 0>>, <<"fmt", SecondsPerMinute>>)
    IN  [f \in DOMAIN row \cup {"age"} |-> IF f = "age" THEN age ELSE row[f]]

\* pd.read_csv("data/Household_Travel_Survey_Trips.csv"), one more row of the file
ReadAgedTrip ==
    /\ pc = "read_csv"
    /\ Len(trips) < MaxRawTrips
    /\ \E day \in RawDays, age \in Ages :
          trips' = Append(trips, AgedRow(Len(trips) + 1, day, age))
    /\ UNCHANGED <<pc, error, input, pass, first_out, trips_clean, trips_clean_adults,
                   metricVars, rogVars>>

NextAdults ==
    \/ ReadAgedTrip
    \/ ReadDone
    \/ DropMissing
    \/ ApplyTravelTime
    \/ Filter
    \/ FilterToAdults

SpecAdults == Init /\ [][NextAdults]_vars

----------------------------------------------------------------------------
(* The Mobility-Metrics Deriver. *)

\* lexicographic order of the groupby keys <<person_dim_id, daynum>>
KeyLess(a, b) == a[1] < b[1] \/ (a[1] = b[1] /\ a[2] < b[2])

RECURSIVE SortedKeys(_)
\* the keys of a groupby, which sorts them
SortedKeys(S) ==
    IF S = {} THEN <<>>
    ELSE LET least == CHOOSE a \in S : \A b \in S \ {a} : KeyLess(a, b)
         IN  <<least>> \o SortedKeys(S \ {least})

\* trips_clean.groupby(['person_dim_id', 'daynum']).size().reset_index()[[...]]
GroupKeys(t) ==
    LET keys == SortedKeys({<<t[i].person_dim_id, t[i].daynum>> : i \in Positions(t)})
    IN  [k \in Positions(keys) |-> [person_dim_id |-> keys[k][1], daynum |-> keys[k][2]]]

TripsOfPerson(t, row) ==
    SelectRows(t, {i \in Positions(t) : t[i].person_dim_id = row.person_dim_id})

\* trips_clean[(trips_clean.person_dim_id == row.person_dim_id) & (trips_clean.daynum == row.daynum)]
TripsOfPersonDay(t, row) ==
    SelectRows(t, {i \in Positions(t) :
                     /\ t[i].person_dim_id = row.person_dim_id
                     /\ t[i].daynum = row.daynum})

Distances(t) == [i \in Positions(t) |-> t[i].trip_path_distance]

\* trips_day_person.trip_path_distance.sum()
PersonMiles(tdp) == SumSeq(Distances(tdp))

DriveMilesOfTable(tdp) ==
    SumSeq(Distances(SelectRows(trips_clean,
        {i \in Positions(trips_clean) : trips_clean[i].mode_simple = Drive})))

\* trips_day_person.loc[trips_day_person['mode_simple'] == 'Drive', 'trip_path_distance'].sum()
VehicleMiles(tdp) ==
    SumSeq(Distances(SelectRows(tdp,
        {i \in Positions(tdp) : tdp[i].mode_simple = Drive})))

ChainStepIgnoresOrigin(row, chains, open) ==
    IF row.dest_purpose = WentHome /\ row.origin_purpose # WentHome /\ open
    THEN <<chains + 1, FALSE>>
    ELSE <<chains, open>>

ChainStepArrivalFirst(row, chains, open) ==
    LET started == IF row.origin_purpose = WentHome THEN TRUE ELSE open
    IN  IF row.dest_purpose # WentHome /\ started THEN <<chains, started>>
        ELSE IF row.dest_purpose = WentHome /\ started THEN <<chains + 1, FALSE>>
        ELSE IF row.dest_purpose = WentHome /\ row.origin_purpose = WentHome
             THEN <<chains, started>>
        ELSE <<chains, started>>

ChainStepDedented(row, chains, open) ==
    LET started == IF row.origin_purpose = WentHome THEN TRUE ELSE open
    IN  IF row.dest_purpose # WentHome /\ started THEN <<chains, started>>
        ELSE IF row.dest_purpose = WentHome /\ row.origin_purpose = WentHome
             THEN <<chains, started>>
        ELSE <<chains + 1, FALSE>>

\* one iteration of the trip-chain loop: <<trip_chains, start_home>> after it
ChainStep(row, chains, open) ==
    LET started == IF row.origin_purpose = WentHome THEN TRUE ELSE open
    IN  IF row.dest_purpose # WentHome /\ started THEN <<chains, started>>
        ELSE IF row.dest_purpose = WentHome /\ row.origin_purpose = WentHome
             THEN <<chains, started>>
        ELSE IF row.dest_purpose = WentHome /\ started THEN <<chains + 1, FALSE>>
        ELSE <<chains, started>>

\* cell: person_day_df = trips_clean.groupby(...)...
GroupBy ==
    /\ pc = "cleaned"
    /\ Len(trips_clean) > 0
    /\ person_day_df' = GroupKeys(trips_clean)
    /\ cur' = 1
    /\ applied' = <<>>
    /\ pc' = "apply_metrics"
    /\ UNCHANGED <<error, cleanerVars, trips_day_person, idx, num_trips, pmt, vmt,
                   trip_chains, start_home, rogVars>>

\* mobility_metrics(row), up to the trip-chain loop
MetricsStart ==
    /\ pc = "apply_metrics"
    /\ cur <= Len(person_day_df)
    /\ LET tdp == TripsOfPersonDay(trips_clean, person_day_df[cur])
       IN  /\ trips_day_person' = tdp
           /\ num_trips' = Len(tdp)
           /\ pmt' = PersonMiles(tdp)
           /\ vmt' = VehicleMiles(tdp)
    /\ trip_chains' = 0
    /\ start_home' = FALSE
    /\ idx' = 1
    /\ pc' = "walk"
    /\ UNCHANGED <<error, cleanerVars, person_day_df, cur, applied, rogVars>>

\* mobility_metrics(row), one iteration of the trip-chain loop
WalkTrip ==
    /\ pc = "walk"
    /\ idx <= Len(trips_day_person)
    /\ LET after == ChainStep(trips_day_person[idx], trip_chains, start_home)
       IN  /\ trip_chains' = after[1]
           /\ start_home' = after[2]
    /\ idx' = idx + 1
    /\ UNCHANGED <<pc, error, cleanerVars, person_day_df, cur, trips_day_person,
                   num_trips, pmt, vmt, applied, rogVars>>

\* mobility_metrics(row) returns its Series to apply
MetricsReturn ==
    /\ pc = "walk"
    /\ idx > Len(trips_day_person)
    /\ applied' = Append(applied, [num_trips |-> num_trips, pmt |-> pmt,
                                   vmt |-> vmt, trip_chains |-> trip_chains])
    /\ cur' = cur + 1
    /\ pc' = "apply_metrics"
    /\ UNCHANGED <<error, cleanerVars, person_day_df, trips_day_person, idx,
                   num_trips, pmt, vmt, trip_chains, start_home, rogVars>>

\* cell: person_day_df[['num_trips', 'pmt', 'vmt', 'trip_chains']] = the applied rows
AssignMetrics ==
    /\ pc = "apply_metrics"
    /\ cur > Len(person_day_df)
    /\ person_day_df' =
          [k \in Positions(person_day_df) |->
              [person_dim_id |-> person_day_df[k].person_dim_id,
               daynum |-> person_day_df[k].daynum,
               num_trips |-> applied[k].num_trips,
               pmt |-> applied[k].pmt,
               vmt |-> applied[k].vmt,
               trip_chains |-> applied[k].trip_chains]]
    /\ pc' = "metrics_done"
    /\ UNCHANGED <<error, cleanerVars, cur, trips_day_person, idx, num_trips, pmt,
                   vmt, trip_chains, start_home, applied, rogVars>>

----------------------------------------------------------------------------
(* Raw trip tables for the Deriver.  A table is either the trips of one    *)
(* person-day, of any purposes, or a table over several person-days whose  *)
(* rows are of a few kinds.  Every row has well-formed timestamps one      *)
(* minute apart and a weekday, so the Cleaner keeps it.                    *)

TripRow(i, person, day, o, d, miles, mode) ==
    [trip_id |-> i, household_id |-> 1, person_dim_id |-> person, daynum |-> day,
     origin_purpose |-> o, dest_purpose |-> d,
     depart_time_string |-> <<"fmt", 0>>,
     arrival_time_string |-> <<"fmt", SecondsPerMinute>>,
     trip_path_distance |-> miles, mode_simple |-> mode]

\* <<origin purpose, destination purpose>> of the trips of the one person-day:
\* every combination of home and not home, and two places that are not home
ChainLegs ==
    { <<WentHome, WentHome>>, <<WentHome, "Went to work">>,
      <<"Went to work", WentHome>>, <<"Went to work", "Went to work">>,
      <<"Went to work", "Shopping">>, <<"Shopping", WentHome>> }

IsChainRow(row) ==
    /\ row.person_dim_id = 1 /\ row.daynum = 1
    /\ row.trip_path_distance = 1 /\ row.mode_simple = Drive
    /\ <<row.origin_purpose, row.dest_purpose>> \in ChainLegs

\* <<origin purpose, destination purpose, miles, mode>> of the rows of a
\* table over several person-days
GroupKinds ==
    { <<WentHome, "Went to work", 1, Drive>>,
      <<"Went to work", WentHome, 2, "Walk">>,
      <<"Went to work", "Shopping", 2, Drive>> }

IsGroupRow(row) ==
    <<row.origin_purpose, row.dest_purpose, row.trip_path_distance, row.mode_simple>>
        \in GroupKinds

\* pd.read_csv (trips): one more trip of the one person-day
ReadChainTrip ==
    /\ pc = "read_csv"
    /\ Len(trips) < MaxChainTrips
    /\ \A i \in Positions(trips) : IsChainRow(trips[i])
    /\ \E leg \in ChainLegs :
          trips' = Append(trips, TripRow(Len(trips) + 1, 1, 1, leg[1], leg[2], 1, Drive))
    /\ UNCHANGED <<pc, error, input, pass, first_out, trips_clean,
                   trips_clean_adults, metricVars, rogVars>>

\* pd.read_csv (trips): one more trip of some person and day
ReadGroupTrip ==
    /\ pc = "read_csv"
    /\ Len(trips) < MaxGroupTrips
    /\ \A i \in Positions(trips) : IsGroupRow(trips[i])
    /\ \E person \in {1, 2}, day \in {1, 2}, k \in GroupKinds :
          trips' = Append(trips, TripRow(Len(trips) + 1, person, day,
                                         k[1], k[2], k[3], k[4]))
    /\ UNCHANGED <<pc, error, input, pass, first_out, trips_clean,
                   trips_clean_adults, metricVars, rogVars>>

NextMetrics ==
    \/ ReadChainTrip
    \/ ReadGroupTrip
    \/ ReadDone
    \/ DropMissing
    \/ ApplyTravelTime
    \/ Filter
    \/ GroupBy
    \/ MetricsStart
    \/ WalkTrip
    \/ MetricsReturn
    \/ AssignMetrics

SpecMetrics == Init /\ [][NextMetrics]_vars

----------------------------------------------------------------------------
(* The O/D data and the radius of gyration.                                *)
(*                                                                         *)
(* A coordinate is a whole number of millionths of a degree, or NaNDeg.    *)
(* A rounded coordinate is a whole number of thousandths of a degree, or   *)
(* NaNDeg.  geopy's ellipsoidal distance in miles is modelled by the       *)
(* planar distance in 1/Resolution of a thousandth of a degree, rounded    *)
(* down: zero exactly for equal points, positive for distinct ones, and    *)
(* (geopy 2) a ValueError for a point that is not finite.                  *)

\* a missing coordinate (float NaN): no degree value
NaNDeg == 999999999

\* washington_bbox, in millionths of a degree
lat_min == 45543500
lat_max == 49002500
lon_min == -124848974
lon_max == -116916197

\* round(x, 3), for x that is no tie
Round3(x) == IF x = NaNDeg THEN NaNDeg ELSE (x + 500) \div 1000

RECURSIVE SqrtBetween(_, _, _)
\* the greatest r in lo .. hi with r * r <= x
SqrtBetween(x, lo, hi) ==
    IF lo = hi THEN lo
    ELSE LET mid == (lo + hi + 1) \div 2
         IN  IF mid * mid <= x THEN SqrtBetween(x, mid, hi)
             ELSE SqrtBetween(x, lo, mid - 1)

\* math.sqrt(x) for x >= 0, rounded down
Sqrt(x) == SqrtBetween(x, 0, IF x < 46340 THEN x ELSE 46340)

RECURSIVE SumSet(_)
SumSet(S) ==
    IF S = {} THEN 0
    ELSE LET x == CHOOSE y \in S : TRUE IN x + SumSet(S \ {x})

\* np.mean(list(S)), in 1/Resolution of the unit of S: NaN for an empty list
\* (a RuntimeWarning, no exception) and for a list with a NaN in it
Mean(S) ==
    IF S = {} \/ NaNDeg \in S THEN NaNDeg
    ELSE (SumSet(S) * Resolution) \div Cardinality(S)

\* are_points_inside_washington
are_points_inside_washington(origin_lat, origin_lng, dest_lat, dest_lng) ==
    /\ lat_min <= origin_lat /\ origin_lat <= lat_max
    /\ lon_min <= origin_lng /\ origin_lng <= lon_max
    /\ lat_min <= dest_lat /\ dest_lat <= lat_max
    /\ lon_min <= dest_lng /\ dest_lng <= lon_max

\* gdf_od.dropna(subset=[...]) and the Both_Points_Inside_Washington filter
CleanOdRows(t) ==
    SelectRows(t, {i \in Positions(t) :
        /\ t[i].origin_lng # NaNDeg /\ t[i].origin_lat # NaNDeg
        /\ t[i].dest_lng # NaNDeg /\ t[i].dest_lat # NaNDeg
        /\ are_points_inside_washington(t[i].origin_lat, t[i].origin_lng,
                                        t[i].dest_lat, t[i].dest_lng)})

WithLocation(row, loc) ==
    [f \in DOMAIN row \cup {"origin_lat", "origin_lng", "dest_lat", "dest_lng"} |->
        IF f \in DOMAIN row THEN row[f] ELSE loc[f]]

NoLocation ==
    [origin_lat |-> NaNDeg, origin_lng |-> NaNDeg, dest_lat |-> NaNDeg, dest_lng |-> NaNDeg]

RECURSIVE LeftMerge(_, _)
\* pd.merge(left, right, on=["trip_id", "household_id"], how="left")
LeftMerge(left, right) ==
    IF left = <<>> THEN <<>>
    ELSE LET n == Len(left)
             row == left[n]
             matches == SelectRows(right, {j \in Positions(right) :
                            /\ right[j].trip_id = row.trip_id
                            /\ right[j].household_id = row.household_id})
             joined == IF matches = <<>> THEN <<WithLocation(row, NoLocation)>>
                       ELSE [j \in Positions(matches) |-> WithLocation(row, matches[j])]
         IN  LeftMerge(SubSeq(left, 1, n - 1), right) \o joined

\* trips_od[trips_od.person_dim_id == row.person_id]
PersonTrips(t, person) ==
    SelectRows(t, {i \in Positions(t) : t[i].person_dim_id = person.person_id})

\* unique_lat, unique_lng, unique_pts after the loop over person_trips_df
unique_lat(ptd) ==
    {Round3(ptd[i].origin_lat) : i \in Positions(ptd)}
        \cup {Round3(ptd[i].dest_lat) : i \in Positions(ptd)}

unique_lng(ptd) ==
    {Round3(ptd[i].origin_lng) : i \in Positions(ptd)}
        \cup {Round3(ptd[i].dest_lng) : i \in Positions(ptd)}

unique_pts(ptd) ==
    {<<Round3(ptd[i].origin_lat), Round3(ptd[i].origin_lng)>> : i \in Positions(ptd)}
        \cup {<<Round3(ptd[i].dest_lat), Round3(ptd[i].dest_lng)>> : i \in Positions(ptd)}

RECURSIVE SumCoordinate(_, _)
SumCoordinate(points, c) ==
    IF points = {} THEN 0
    ELSE LET p == CHOOSE q \in points : TRUE
         IN  p[c] + SumCoordinate(points \ {p}, c)

\* the mean of the c-th coordinate over a set of points
MeanCoordinate(points, c) ==
    IF points = {} \/ (\E p \in points : p[c] = NaNDeg) THEN NaNDeg
    ELSE (SumCoordinate(points, c) * Resolution) \div Cardinality(points)

\* the centroid of the unique points, each point counted once
CentroidOfPoints(ptd) ==
    <<MeanCoordinate(unique_pts(ptd), 2), MeanCoordinate(unique_pts(ptd), 1)>>

\* centroid = (np.mean(list(unique_lng)), np.mean(list(unique_lat)))
Centroid(ptd) == <<Mean(unique_lng(ptd)), Mean(unique_lat(ptd))>>

\* geopy.distance.geodesic(point, (centroid[1], centroid[0])) raises ValueError
GeodesicRaises(point, centroid) ==
    point[1] = NaNDeg \/ point[2] = NaNDeg \/ centroid[1] = NaNDeg \/ centroid[2] = NaNDeg

\* geopy.distance.geodesic(point, (centroid[1], centroid[0])).miles
\* point is (lat, lng), centroid is (lng, lat)
Geodesic(point, centroid) ==
    LET dlat == point[1] * Resolution - centroid[2]
        dlng == point[2] * Resolution - centroid[1]
    IN  Sqrt(dlat * dlat + dlng * dlng)

RECURSIVE SumSquares(_, _)
\* sum_di after the loop over d_i
SumSquares(points, centroid) ==
    IF points = {} THEN 0
    ELSE LET p == CHOOSE q \in points : TRUE
             d == Geodesic(p, centroid)
         IN  d * d + SumSquares(points \ {p}, centroid)

None == <<"None">>

Float(x) == <<"float", x>>

RogZeroWhenEmpty(points, centroid) ==
    IF \E p \in points : GeodesicRaises(p, centroid) THEN <<"raise", "ValueError">>
    ELSE IF Cardinality(points) = 0 THEN Float(0)
    ELSE Float(Sqrt(SumSquares(points, centroid) \div Cardinality(points)))

\* rog(points, centroid): the value returned, or the exception raised
rog(points, centroid) ==
    IF \E p \in points : GeodesicRaises(p, centroid) THEN <<"raise", "ValueError">>
    ELSE IF Cardinality(points) = 0 THEN <<"raise", "ZeroDivisionError">>
    ELSE Float(Sqrt(SumSquares(points, centroid) \div Cardinality(points)))

\* rog_centroid_df(row): what the try returns, None from the bare except
rog_centroid_df(person) ==
    LET person_trips_df == PersonTrips(trips_od, person)
        rog_centroid == rog(unique_pts(person_trips_df), Centroid(person_trips_df))
    IN  IF rog_centroid[1] = "raise" THEN None ELSE rog_centroid

\* cell: gdf_od, its dropna and its Washington filter
CleanOd ==
    /\ pc \in {"cleaned", "metrics_done"}
    /\ gdf_od' = CleanOdRows(od)
    /\ pc' = "merge"
    /\ UNCHANGED <<error, cleanerVars, metricVars, rogs, last_centroid, od, trips_od,
                   persons>>

\* cell: trips_od = pd.merge(trips_clean, od, ...)
MergeOd ==
    /\ pc = "merge"
    /\ trips_od' = LeftMerge(trips_clean, od)
    /\ rogs' = <<>>
    /\ pc' = "apply_rog"
    /\ UNCHANGED <<error, cleanerVars, metricVars, last_centroid, od, gdf_od, persons>>

\* persons.apply(rog_centroid_df, axis=1): the next person
RogPerson ==
    /\ pc = "apply_rog"
    /\ Len(rogs) < Len(persons)
    /\ rogs' = Append(rogs, rog_centroid_df(persons[Len(rogs) + 1]))
    /\ last_centroid' = Centroid(PersonTrips(trips_od, persons[Len(rogs) + 1]))
    /\ UNCHANGED <<pc, error, cleanerVars, metricVars, od, gdf_od, trips_od, persons>>

\* cell: persons["rog"] = the applied values
AssignRog ==
    /\ pc = "apply_rog"
    /\ Len(rogs) = Len(persons)
    /\ persons' = [k \in Positions(persons) |->
                      [person_id |-> persons[k].person_id, rog |-> rogs[k]]]
    /\ pc' = "rog_done"
    /\ UNCHANGED <<error, cleanerVars, metricVars, rogs, last_centroid, od, gdf_od,
                   trips_od>>

----------------------------------------------------------------------------
(* Tables for the radius of gyration: two persons, and trips of either     *)
(* with or without a row in the O/D table.  The places lie at the eastern  *)
(* edge of the Washington bounding box.                                    *)

\* <<lat, lng>>: a place, the same place a few metres off, a place of the
\* same latitude east of the bounding box, a place of the same longitude
\* further north
Places ==
    { <<47606200, -116920400>>, <<47606400, -116919800>>,
      <<47606200, -116910300>>, <<47610100, -116920400>> }

\* <<origin, destination>> of a row of the O/D table
OdLegs == (Places \X Places) \cup {<<<<47606200, -116920400>>, <<NaNDeg, NaNDeg>>>>}

OdRow(i, leg) ==
    [trip_id |-> i, household_id |-> 1,
     origin_lat |-> leg[1][1], origin_lng |-> leg[1][2],
     dest_lat |-> leg[2][1], dest_lng |-> leg[2][2]]

\* pd.read_csv (trips, od): one more trip, with its row of the O/D table
ReadLocatedTrip ==
    /\ pc = "read_csv"
    /\ Len(trips) < MaxOdTrips
    /\ \E person \in {1, 2}, leg \in OdLegs :
          /\ trips' = Append(trips, TripRow(Len(trips) + 1, person, 1,
                                            WentHome, "Went to work", 1, Drive))
          /\ od' = Append(od, OdRow(Len(trips) + 1, leg))
    /\ UNCHANGED <<pc, error, input, pass, first_out, trips_clean, trips_clean_adults, metricVars,
                   rogs, last_centroid, gdf_od, trips_od, persons>>

\* pd.read_csv (trips, od): one more trip, the O/D table having no row for it
ReadUnlocatedTrip ==
    /\ pc = "read_csv"
    /\ Len(trips) < MaxOdTrips
    /\ \E person \in {1, 2} :
          trips' = Append(trips, TripRow(Len(trips) + 1, person, 1,
                                         WentHome, "Went to work", 1, Drive))
    /\ UNCHANGED <<pc, error, input, pass, first_out, trips_clean,
                   trips_clean_adults, metricVars, rogVars>>

NextRog ==
    \/ ReadLocatedTrip
    \/ ReadUnlocatedTrip
    \/ ReadDone
    \/ DropMissing
    \/ ApplyTravelTime
    \/ Filter
    \/ CleanOd
    \/ MergeOd
    \/ RogPerson
    \/ AssignRog

SpecRog == Init /\ [][NextRog]_vars

----------------------------------------------------------------------------
(* The whole notebook: the Cleaner, the Deriver and the radius-of-gyration *)
(* cells on one trip table, some of whose rows the Cleaner removes.        *)

\* a trip as the files give it: its daynum (a Monday or a Saturday), its
\* arrival_time_string, whether the O/D table has a row for it, and that row
PipelineTrips ==
    { [day |-> 1, arrival |-> <<"fmt", SecondsPerMinute>>, located |-> TRUE,
       leg |-> <<<<47606200, -116920400>>, <<47610100, -116920400>>>>],
      [day |-> 1, arrival |-> <<"fmt", SecondsPerMinute>>, located |-> TRUE,
       leg |-> <<<<47606200, -116920400>>, <<47606200, -116910300>>>>],
      [day |-> 1, arrival |-> <<"fmt", SecondsPerMinute>>, located |-> FALSE,
       leg |-> <<<<NaNDeg, NaNDeg>>, <<NaNDeg, NaNDeg>>>>],
      [day |-> 1, arrival |-> NaN, located |-> TRUE,
       leg |-> <<<<47606200, -116920400>>, <<47610100, -116920400>>>>],
      [day |-> 6, arrival |-> <<"fmt", SecondsPerMinute>>, located |-> TRUE,
       leg |-> <<<<47610100, -116920400>>, <<47606200, -116920400>>>>] }

\* pd.read_csv (trips, od): one more trip, with its row of the O/D table if
\* it has one
ReadPipelineTrip ==
    /\ pc = "read_csv"
    /\ Len(trips) < MaxOdTrips
    /\ \E person \in {1, 2}, trip \in PipelineTrips :
          /\ trips' = Append(trips,
                 [TripRow(Len(trips) + 1, person, trip.day,
                          WentHome, "Went to work", 1, Drive)
                     EXCEPT !.arrival_time_string = trip.arrival])
          /\ od' = IF trip.located THEN Append(od, OdRow(Len(trips) + 1, trip.leg))
                   ELSE od
    /\ UNCHANGED <<pc, error, input, pass, first_out, trips_clean, trips_clean_adults, metricVars,
                   rogs, last_centroid, gdf_od, trips_od, persons>>

NextPipeline ==
    \/ ReadPipelineTrip
    \/ ReadDone
    \/ DropMissing
    \/ ApplyTravelTime
    \/ Filter
    \/ GroupBy
    \/ MetricsStart
    \/ WalkTrip
    \/ MetricsReturn
    \/ AssignMetrics
    \/ CleanOd
    \/ MergeOd
    \/ RogPerson
    \/ AssignRog

SpecPipeline == Init /\ [][NextPipeline]_vars

----------------------------------------------------------------------------
(* Claims about the Cleaner, checked under SpecClean. *)

TripIds(t) == {t[i].trip_id : i \in Positions(t)}

\* the seconds between a row's two parseable timestamps, whichever is later
SecondsApart(row) ==
    LET a == row.arrival_time_string[2]
        d == row.depart_time_string[2]
    IN  IF a >= d THEN a - d ELSE d - a

\* both timestamp strings of the row are present and in the expected format
WellFormed(row) ==
    /\ row.arrival_time_string # NaN /\ row.arrival_time_string[1] = "fmt"
    /\ row.depart_time_string # NaN /\ row.depart_time_string[1] = "fmt"

\* a timestamp string of the row is present and not in the expected format
Malformed(row) ==
    /\ row.arrival_time_string # NaN
    /\ row.depart_time_string # NaN
    /\ ~WellFormed(row)

(* C6: every row that has a recomputed travel_time_calc holds the absolute  *)
(* value of (arrival - departure) in minutes, which is >= 0 whichever of    *)
(* the two timestamps is later.                                             *)
C6_TravelTimeIsAbsoluteDifference ==
    \A i \in Positions(trips_clean) :
        HasTravelTime(trips_clean[i]) =>
            /\ trips_clean[i].travel_time_calc >= 0
            /\ trips_clean[i].travel_time_calc * SecondsPerMinute
                  = SecondsApart(trips_clean[i])

\* a row whose arrival is earlier than its departure has its travel time
C6_Witness ==
    \E i \in Positions(trips_clean) :
        /\ HasTravelTime(trips_clean[i])
        /\ trips_clean[i].arrival_time_string[2] < trips_clean[i].depart_time_string[2]
        /\ trips_clean[i].travel_time_calc > 0

(* C7: the plausibility filter keeps exactly the rows with travel time     *)
(* below 120 minutes (a row at exactly 120 is removed) and daynum in       *)
(* {1,..,5}: a step of the filter cell removes every row failing either    *)
(* predicate, keeps every row satisfying both, unchanged, and adds none.   *)
C7_FilterKeepsExactlyPlausible ==
    [][pc = "filter" =>
        /\ \A i \in Positions(trips_clean) :
              (\E j \in Positions(trips_clean') : trips_clean'[j] = trips_clean[i])
                <=> (/\ trips_clean[i].travel_time_calc < 120
                     /\ trips_clean[i].daynum \in {1, 2, 3, 4, 5})
        /\ \A j \in Positions(trips_clean') :
              \E i \in Positions(trips_clean) : trips_clean'[j] = trips_clean[i]
        /\ Len(trips_clean') = Cardinality(TripIds(trips_clean'))]_vars

\* the filter has run on a weekday row of exactly 120 minutes, which it
\* removed, and on a plausible row, which it kept
C7_Witness ==
    /\ pc = "cleaned"
    /\ pass = 1
    /\ \E i \in Positions(trips) :
          /\ WellFormed(trips[i])
          /\ SecondsApart(trips[i]) = 120 * SecondsPerMinute
          /\ trips[i].daynum = 5
          /\ trips[i].trip_id \notin TripIds(trips_clean)
    /\ \E i \in Positions(trips) : trips[i].trip_id \in TripIds(trips_clean)

\* a row the Cleaner has no reason to remove: well-formed timestamps less
\* than 120 minutes apart, on a weekday
Cleanable(row) ==
    /\ WellFormed(row)
    /\ SecondsApart(row) < 120 * SecondsPerMinute
    /\ row.daynum \in {1, 2, 3, 4, 5}

(* C8, as claimed: when the raw table holds a row with a malformed         *)
(* timestamp beside rows the Cleaner has no reason to remove, then once    *)
(* the Cleaner has stopped the cleaned table holds exactly those other     *)
(* rows, each with its travel time: the malformed row alone is left out.   *)
C8_Original ==
    (/\ pass = 1
     /\ pc \in {"cleaned", "error"}
     /\ \E i \in Positions(trips) : Malformed(trips[i])
     /\ \E i \in Positions(trips) : Cleanable(trips[i]))
    => /\ TripIds(trips_clean)
            = {trips[i].trip_id : i \in {k \in Positions(trips) : Cleanable(trips[k])}}
       /\ \A i \in Positions(trips_clean) : HasTravelTime(trips_clean[i])

(* C8, amended: when a row with both timestamp strings present has one     *)
(* that does not match the format, the apply cell ends in ValueError: no   *)
(* row is given a travel time (none is defaulted), trips_clean stays the   *)
(* dropna result with the offending row in it, and the filter never runs.  *)
C8_MalformedRowAbortsCleaning ==
    (/\ pc \notin {"read_csv", "dropna", "apply"}
     /\ \E i \in Positions(trips) : Malformed(trips[i]))
    => /\ pc = "error"
       /\ error = "ValueError"
       /\ \A i \in Positions(trips_clean) : ~HasTravelTime(trips_clean[i])
       /\ TripIds(trips_clean)
            = {trips[i].trip_id : i \in {k \in Positions(trips) :
                   /\ trips[k].arrival_time_string # NaN
                   /\ trips[k].depart_time_string # NaN}}

\* the apply cell has raised on a table that also holds a well-formed,
\* plausible row
C8_Witness ==
    /\ pc = "error"
    /\ \E i \in Positions(trips) : Malformed(trips[i])
    /\ \E i \in Positions(trips) : Cleanable(trips[i])

(* C9: the Cleaner applied to its own output yields that same table.       *)
C9_CleaningIsIdempotent ==
    (pass = 2 /\ pc = "cleaned") => trips_clean = first_out

\* the second pass has ended on a non-empty table, the first having
\* removed a row
C9_Witness ==
    /\ pass = 2
    /\ pc = "cleaned"
    /\ Len(trips_clean) >= 1
    /\ \E i \in Positions(trips_clean) : trips_clean[i].travel_time_calc > 0
    /\ Len(trips_clean) < Len(trips)

----------------------------------------------------------------------------
(* Claims about the Mobility-Metrics Deriver, checked under SpecMetrics.   *)
(* applied[k] is the Series mobility_metrics returned for person_day_df[k]. *)

\* the positions in trips_clean of the trips of the k-th person-day
DayPositions(k) ==
    {i \in Positions(trips_clean) :
        /\ trips_clean[i].person_dim_id = person_day_df[k].person_dim_id
        /\ trips_clean[i].daynum = person_day_df[k].daynum}

RECURSIVE InOrder(_, _)
\* the rows of t at the positions P, in table order
InOrder(t, P) ==
    IF P = {} THEN <<>>
    ELSE LET last == CHOOSE i \in P : \A j \in P : j <= i
         IN  Append(InOrder(t, P \ {last}), t[last])

RECURSIVE SumOver(_, _)
\* the sum of trip_path_distance over the rows of trips_clean at the positions P
SumOver(t, P) ==
    IF P = {} THEN 0
    ELSE LET i == CHOOSE j \in P : TRUE
         IN  t[i].trip_path_distance + SumOver(t, P \ {i})

AtHome(purpose) == purpose = "Went home"

RECURSIVE Excursions(_, _, _)
(* The number of excursions when the trips s, read from position n on, are *)
(* back-to-back complete excursions, and -1 when they are not.  away tells *)
(* whether an excursion has begun and not yet come back.                   *)
Excursions(s, n, away) ==
    IF n > Len(s) THEN (IF away THEN -1 ELSE 0)
    ELSE LET o == AtHome(s[n].origin_purpose)
             d == AtHome(s[n].dest_purpose)
         IN  IF ~away
             THEN (IF o /\ ~d THEN Excursions(s, n + 1, TRUE) ELSE -1)
             ELSE IF ~o /\ ~d THEN Excursions(s, n + 1, TRUE)
             ELSE IF ~o /\ d
                  THEN LET rest == Excursions(s, n + 1, FALSE)
                       IN  IF rest < 0 THEN -1 ELSE rest + 1
             ELSE -1

OnlyHomeToHome(s) ==
    \A n \in Positions(s) : AtHome(s[n].origin_purpose) /\ AtHome(s[n].dest_purpose)

NoHomeAtAll(s) ==
    \A n \in Positions(s) : ~AtHome(s[n].origin_purpose) /\ ~AtHome(s[n].dest_purpose)

(* C1: a person-day whose trips, in table order, are k >= 0 back-to-back   *)
(* complete excursions (home to elsewhere, stops away from home, back      *)
(* home) gets trip_chains = k, and a person-day of home-to-home trips      *)
(* alone gets 0.                                                           *)
C1_ChainsCountExcursions ==
    \A k \in Positions(applied) :
        LET day == InOrder(trips_clean, DayPositions(k))
        IN  /\ Excursions(day, 1, FALSE) >= 0
                => applied[k].trip_chains = Excursions(day, 1, FALSE)
            /\ OnlyHomeToHome(day) => applied[k].trip_chains = 0

\* a person-day of two back-to-back excursions has been counted
C1_Witness ==
    \E k \in Positions(applied) :
        LET day == InOrder(trips_clean, DayPositions(k))
        IN  /\ Excursions(day, 1, FALSE) = 2
            /\ applied[k].trip_chains = 2

(* C2: an iteration of the trip-chain loop on a trip from "Went home" to   *)
(* "Went home" neither increments trip_chains nor leaves start_home false, *)
(* whatever start_home was before.                                         *)
C2_HomeToHomeNeverCloses ==
    [][(/\ pc = "walk"
        /\ idx <= Len(trips_day_person)
        /\ idx' = idx + 1
        /\ trips_day_person[idx].origin_purpose = "Went home"
        /\ trips_day_person[idx].dest_purpose = "Went home")
       => (trip_chains' = trip_chains /\ start_home' # FALSE)]_vars

\* the loop has just passed a home-to-home trip that it met with the chain
\* open, and the chain is still open
C2_Witness ==
    /\ pc = "walk"
    /\ idx > 2
    /\ trips_day_person[idx - 2].origin_purpose = "Went home"
    /\ trips_day_person[idx - 2].dest_purpose # "Went home"
    /\ trips_day_person[idx - 1].origin_purpose = "Went home"
    /\ trips_day_person[idx - 1].dest_purpose = "Went home"
    /\ start_home
    /\ trip_chains = 0

(* C3: trip_chains <= num_trips for every person-day, in whatever order    *)
(* its trips stand, and a person-day with no "Went home" purpose at either *)
(* end of any trip has trip_chains = 0.                                    *)
C3_ChainsAtMostTrips ==
    \A k \in Positions(applied) :
        /\ applied[k].trip_chains <= applied[k].num_trips
        /\ NoHomeAtAll(InOrder(trips_clean, DayPositions(k)))
              => applied[k].trip_chains = 0

\* a person-day of several trips, none touching home, has its record
C3_Witness ==
    /\ \E k \in Positions(applied) :
          /\ NoHomeAtAll(InOrder(trips_clean, DayPositions(k)))
          /\ applied[k].num_trips >= 2
          /\ applied[k].trip_chains = 0
    /\ pc = "metrics_done"

(* C4: person_day_df holds exactly one record for each (person_dim_id,     *)
(* daynum) pair of the cleaned table and none for another pair; its        *)
(* num_trips is the number of cleaned rows with that pair and its pmt the  *)
(* sum of their trip_path_distance; the num_trips sum to the row count.    *)
C4_OneRecordPerPersonDay ==
    pc = "metrics_done" =>
        /\ {<<person_day_df[k].person_dim_id, person_day_df[k].daynum>> :
                k \in Positions(person_day_df)}
             = {<<trips_clean[i].person_dim_id, trips_clean[i].daynum>> :
                i \in Positions(trips_clean)}
        /\ \A k, m \in Positions(person_day_df) :
              (/\ person_day_df[k].person_dim_id = person_day_df[m].person_dim_id
               /\ person_day_df[k].daynum = person_day_df[m].daynum) => k = m
        /\ \A k \in Positions(person_day_df) :
              /\ person_day_df[k].num_trips = Cardinality(DayPositions(k))
              /\ person_day_df[k].pmt = SumOver(trips_clean, DayPositions(k))
        /\ SumSeq([k \in Positions(person_day_df) |-> person_day_df[k].num_trips])
             = Len(trips_clean)

\* the records are assigned for a table in which one person travels on two
\* days and some person-day has several trips
C4_Witness ==
    /\ pc = "metrics_done"
    /\ \E k, m \in Positions(person_day_df) :
          /\ person_day_df[k].person_dim_id = person_day_df[m].person_dim_id
          /\ person_day_df[k].daynum # person_day_df[m].daynum
    /\ \E k \in Positions(person_day_df) :
          person_day_df[k].num_trips >= 2 /\ person_day_df[k].pmt >= 3

(* C5: every person-day record has vmt <= pmt, vmt being the sum of        *)
(* trip_path_distance over the person-day's "Drive" trips alone.           *)
C5_VehicleMilesAtMostPersonMiles ==
    \A k \in Positions(applied) :
        /\ applied[k].vmt <= applied[k].pmt
        /\ applied[k].vmt
             = SumOver(trips_clean,
                       {i \in DayPositions(k) : trips_clean[i].mode_simple = "Drive"})

\* a person-day that drove some of its miles and not all has its record,
\* in a table where other person-days drove too
C5_Witness ==
    /\ \E k \in Positions(applied) : 0 < applied[k].vmt /\ applied[k].vmt < applied[k].pmt
    /\ \E k \in Positions(applied) : applied[k].vmt = applied[k].pmt /\ applied[k].vmt > 0
    /\ Len(applied) >= 2

----------------------------------------------------------------------------
(* Claims about the radius of gyration, checked under SpecRog.             *)
(* rogs[k] is the value rog_centroid_df returned for persons[k].           *)

\* the positions in trips_od of the trips of the k-th person
TripsOfPersonAt(k) ==
    {i \in Positions(trips_od) : trips_od[i].person_dim_id = persons[k].person_id}

\* the <<lat, lng>> origins and destinations of the k-th person's trips
EndpointsOf(k) ==
    {<<trips_od[i].origin_lat, trips_od[i].origin_lng>> : i \in TripsOfPersonAt(k)}
        \cup {<<trips_od[i].dest_lat, trips_od[i].dest_lng>> : i \in TripsOfPersonAt(k)}

Missing(x) == x = 999999999

ValidPair(p) == ~Missing(p[1]) /\ ~Missing(p[2])

\* the thousandth of a degree nearest to x millionths
NearestThousandth(x) ==
    CHOOSE m \in (x \div 1000) .. (x \div 1000) + 1 :
        (1000 * m - x < 500) /\ (x - 1000 * m <= 500)

\* the endpoints of the k-th person all present and all rounding to one point
OneRoundedPoint(k) ==
    /\ EndpointsOf(k) # {}
    /\ \A p \in EndpointsOf(k) : ValidPair(p)
    /\ \A p, q \in EndpointsOf(k) :
          /\ NearestThousandth(p[1]) = NearestThousandth(q[1])
          /\ NearestThousandth(p[2]) = NearestThousandth(q[2])

(* C10: no exception leaves rog_centroid_df; a person with no valid        *)
(* coordinate pair gets None, a person whose trips yield exactly one       *)
(* unique rounded point gets the value 0 and not None, and every value     *)
(* that is not None is >= 0.                                               *)
C10_AbsentApartFromZero ==
    /\ error = "none"
    /\ \A k \in Positions(rogs) :
          /\ (\A p \in EndpointsOf(k) : ~ValidPair(p)) => rogs[k] = <<"None">>
          /\ OneRoundedPoint(k) => rogs[k] = <<"float", 0>>
          /\ rogs[k] # <<"None">> => (rogs[k][1] = "float" /\ rogs[k][2] >= 0)

\* the rog column is assigned: a person without any trip has None, a person
\* whose distinct endpoints round to one point has 0
C10_Witness ==
    /\ pc = "rog_done"
    /\ \E k \in Positions(persons) :
          TripsOfPersonAt(k) = {} /\ persons[k].rog = <<"None">>
    /\ \E k \in Positions(persons) :
          /\ Cardinality(EndpointsOf(k)) = 2
          /\ OneRoundedPoint(k)
          /\ persons[k].rog = <<"float", 0>>

----------------------------------------------------------------------------
(* The centroid.  A rounded point is <<lat, lng>> in thousandths of a      *)
(* degree; a centroid is <<lng, lat>> in 1/Resolution of a thousandth.     *)

\* the k-th person's unique rounded points
RoundedPointsOf(k) ==
    {<<NearestThousandth(p[1]), NearestThousandth(p[2])>> : p \in EndpointsOf(k)}

\* the distinct values of the c-th coordinate of a set of points
DistinctValues(points, c) == {p[c] : p \in points}

RECURSIVE Total(_)
\* the numbers of S summed
Total(S) ==
    IF S = {} THEN 0
    ELSE LET x == CHOOSE y \in S : TRUE IN x + Total(S \ {x})

RECURSIVE TotalOf(_, _)
\* the c-th coordinate summed over the points, one term a point
TotalOf(points, c) ==
    IF points = {} THEN 0
    ELSE LET p == CHOOSE q \in points : TRUE IN p[c] + TotalOf(points \ {p}, c)

\* m is total / n in 1/Resolution of the unit of total, rounded down
IsQuotient(m, total, n) ==
    n * m <= Resolution * total /\ Resolution * total < n * (m + 1)

\* r is the square root of x, rounded down
IsRoot(r, x) == r >= 0 /\ r * r <= x /\ x < (r + 1) * (r + 1)

\* the squared distance between a rounded point and a centroid
SquaredDistance(p, c) ==
    LET dlat == p[1] * Resolution - c[2]
        dlng == p[2] * Resolution - c[1]
    IN  dlat * dlat + dlng * dlng

\* the distance between a rounded point and a centroid, rounded down
DistanceTo(p, c) ==
    CHOOSE d \in 0 .. (Abs(p[1] * Resolution - c[2]) + Abs(p[2] * Resolution - c[1])) :
        IsRoot(d, SquaredDistance(p, c))

RECURSIVE SquaresTo(_, _)
\* the squares of the distances of the points to c, summed
SquaresTo(points, c) ==
    IF points = {} THEN 0
    ELSE LET p == CHOOSE q \in points : TRUE
             d == DistanceTo(p, c)
         IN  d * d + SquaresTo(points \ {p}, c)

\* rog_centroid_df has been called, last for the k-th person, whose trips
\* have all their coordinates
LatestPersonLocated ==
    /\ Len(rogs) > 0
    /\ EndpointsOf(Len(rogs)) # {}
    /\ \A p \in EndpointsOf(Len(rogs)) : ValidPair(p)

(* C11: the centroid's longitude is the mean of the distinct rounded       *)
(* longitudes and its latitude the mean of the distinct rounded latitudes  *)
(* of the person's origins and destinations, each mean taken on its own;   *)
(* the value returned is the root of the mean squared distance of the      *)
(* unique rounded points to that centroid.                                 *)
C11_CentroidIsIndependentMeans ==
    LatestPersonLocated =>
        LET k == Len(rogs)
            pts == RoundedPointsOf(k)
        IN  /\ Len(last_centroid) = 2
            /\ IsQuotient(last_centroid[1], Total(DistinctValues(pts, 2)),
                          Cardinality(DistinctValues(pts, 2)))
            /\ IsQuotient(last_centroid[2], Total(DistinctValues(pts, 1)),
                          Cardinality(DistinctValues(pts, 1)))
            /\ rogs[k][1] = "float"
            /\ IsRoot(rogs[k][2], SquaresTo(pts, last_centroid) \div Cardinality(pts))

\* a person with three unique points on two latitudes and two longitudes:
\* the centroid's longitude is not the mean longitude of the three points
C11_Witness ==
    /\ LatestPersonLocated
    /\ LET pts == RoundedPointsOf(Len(rogs))
       IN  /\ Cardinality(pts) = 3
           /\ Cardinality(DistinctValues(pts, 1)) = 2
           /\ Cardinality(DistinctValues(pts, 2)) = 2
           /\ ~IsQuotient(last_centroid[1], TotalOf(pts, 2), 3)
           /\ rogs[Len(rogs)][1] = "float"
           /\ rogs[Len(rogs)][2] > 0

----------------------------------------------------------------------------
(* Claims about the tables a cell takes as input, checked under            *)
(* SpecPipeline.  The files are read when pc has left "read_csv".          *)

\* the columns of a table
Columns(t) == UNION {DOMAIN t[i] : i \in Positions(t)}

\* table new is table old with the one column added, nothing else changed
AddsColumn(old, new, column) ==
    /\ Len(new) = Len(old)
    /\ \A i \in Positions(old) :
          /\ DOMAIN new[i] = DOMAIN old[i] \cup {column}
          /\ column \notin DOMAIN old[i]
          /\ \A f \in DOMAIN old[i] : new[i][f] = old[i][f]

\* C12 as stated: once loaded, no cell changes the raw trip table or the
\* person table
C12_Original ==
    [][pc # "read_csv" => (trips' = trips /\ persons' = persons)]_vars

(* C12: once loaded, no cell changes the raw trip table, and the only cell *)
(* that changes the person table is the rog cell, which adds the rog       *)
(* column to it in place, keeping its rows, their order and their other    *)
(* columns.                                                                *)
C12_OnlyRogColumnAdded ==
    [][pc # "read_csv" =>
          /\ trips' = trips
          /\ \/ persons' = persons
             \/ /\ pc = "apply_rog" /\ pc' = "rog_done"
                /\ AddsColumn(persons, persons', "rog")]_vars

\* the three stages have run on a table of which the Cleaner removed a row:
\* the person table has a rog column
C12_Witness ==
    /\ pc = "rog_done"
    /\ Len(trips_clean) > 0
    /\ Len(trips_clean) < Len(trips)
    /\ Len(applied) = Len(person_day_df)
    /\ Len(person_day_df) > 0
    /\ Columns(persons) = {"person_id", "rog"}
    /\ \E k \in Positions(persons) : persons[k].rog[1] = "float"

----------------------------------------------------------------------------
(* Claims about the adult filter, checked under SpecAdults. *)

\* the row is of a person under 18
UnderEighteen(row) ==
    row.age \in {"Under 5 years old", "5-11 years", "12-15 years", "16-17 years"}

(* C13: trips_clean_adults holds no row of trips_clean whose age is one of *)
(* the four groups under 18, and holds every row of trips_clean whose age  *)
(* is none of them.                                                        *)
C13_AdultsOnly ==
    pc = "adults_done" =>
        /\ \A i \in Positions(trips_clean_adults) : ~UnderEighteen(trips_clean_adults[i])
        /\ \A i \in Positions(trips_clean) :
              ~UnderEighteen(trips_clean[i]) =>
                  \E j \in Positions(trips_clean_adults) :
                      trips_clean_adults[j] = trips_clean[i]

----------------------------------------------------------------------------
(* Claims about the O/D rows behind a radius of gyration, checked under    *)
(* SpecRog.                                                                *)

\* the positions in od of the O/D rows merged into the i-th row of trips_od
OdRowsOf(i) ==
    {j \in Positions(od) : /\ od[j].trip_id = trips_od[i].trip_id
                           /\ od[j].household_id = trips_od[i].household_id}

\* the O/D cleaning step kept the row
PassedOdCleaning(row) == \E m \in Positions(gdf_od) : gdf_od[m] = row

(* C14: every coordinate behind a person's radius of gyration comes from   *)
(* an O/D row that the O/D cleaning step kept (its four coordinates        *)
(* present, both endpoints inside the Washington bounding box): no row     *)
(* that step rejected gives a point to a person's rog.                     *)
C14_OnlyCleanedOdEntersRog ==
    \A k \in Positions(rogs) :
        rogs[k] # <<"None">> =>
            \A i \in TripsOfPersonAt(k) :
                \A j \in OdRowsOf(i) : PassedOdCleaning(od[j])

=============================================================================
